---- MODULE Spec2Model ----
(***************************************************************************)
(* trackintel/preprocessing/positionfixes.py: staypoint generation with    *)
(* the sliding window of Li et al. (2008) and tripleg generation in its    *)
(* three cases.  A table is a sequence of rows (records); a row carries    *)
(* its index value in the field id.  Positions in a table are 0-based as   *)
(* in the source: At(s, k) is s[k] of the source.                          *)
(***************************************************************************)
EXTENDS Integers, Sequences, FiniteSets, TLC

VARIABLES
    positionfixes,    \* the caller's positionfixes table
    pc,               \* "input", "staypoints" (generate_staypoints returned), "triplegs" (generate_triplegs returned or raised),
                      \* "call" and "scan" (before and in the sliding scan), "returned" (both calls of a pair returned)
    dist_threshold,   \* argument of generate_staypoints
    time_threshold,   \* argument of generate_staypoints
    sp_ret_pfs,       \* ret_pfs returned by generate_staypoints
    sp_ret_spts,      \* ret_spts returned by generate_staypoints
    stps2pfs_map,     \* staypoint id -> member fix ids (the pfs_id column, dropped on return)
    tpl_pfs,          \* generate_triplegs: the argument positionfixes
    tpl_staypoints,   \* generate_triplegs: the argument staypoints (<<None>> for None)
    tpl_ret_pfs,      \* ret_pfs returned by generate_triplegs
    ret_tpls,         \* ret_tpls returned by generate_triplegs
    pfs_tripleg_id,   \* case 3: tripleg_id written to the local sorted copies pfs, by fix id
    raised,           \* the exception generate_triplegs ended with, "none" if it returned
    scan,             \* _generate_staypoints_sliding_user: the loop state [i, j, ret_spts, done]
    runs              \* the results of two calls of generate_staypoints on one table

vars == <<positionfixes, pc, dist_threshold, time_threshold, sp_ret_pfs, sp_ret_spts,
          stps2pfs_map, tpl_pfs, tpl_staypoints, tpl_ret_pfs, ret_tpls, pfs_tripleg_id,
          raised, scan, runs>>

---------------------------------------------------------------------------
(* Bounds and value domains *)

MaxFixes == 4          \* rows of a positionfixes table
MaxRuns == 3           \* rows of a table that generate_staypoints is called on twice
MaxX == 2              \* largest coordinate of such a table
MaxScan == 3           \* rows of a table whose scan is followed to its end
MaxGiven == 3          \* rows of a positionfixes table passed with staypoints of the caller's
MaxStps == 3           \* rows of such a staypoints table
Users == {1, 2}
Times == {0, 1, 2}     \* tracked_at, in seconds
Coords == {0, 1}       \* coordinates on a line, multi-user tables
TimeThresholds == {0, 1}
Labels == {-1, 0, 1}   \* caller-supplied staypoint_id values
GivenTimes == {0, 1}   \* tracked_at, started_at and finished_at of tables passed with staypoints

(* Values standing for what is no integer in the source *)
NaN == -2              \* np.NaN in a staypoint_id column
Absent == -3           \* the table has no such column
None == -4             \* Python None

At(s, k) == s[k + 1]

\* dist_func on points of a line (the source's default is haversine_dist)
dist_func_signed(x1, x2) == x1 - x2
dist_func(x1, x2) == IF x1 >= x2 THEN x1 - x2 ELSE x2 - x1

\* == and != of the source on values that may be NaN: NaN equals nothing
Eq(a, b) == a # NaN /\ b # NaN /\ a = b
Ne(a, b) == ~Eq(a, b)

---------------------------------------------------------------------------
(* Tables *)

\* the ids of the rows of user u, in table order (ret_pfs.groupby('user_id'), ret_pfs.loc[ret_pfs['user_id'] == u])
PositionsOf_all(tbl, u) == [k \in 1..Len(tbl) |-> k]
PositionsOf(tbl, u) == SelectSeq([k \in 1..Len(tbl) |-> k], LAMBDA k : tbl[k].user_id = u)

\* row of fix id f (ids are unique in a table)
Row(tbl, f) == tbl[CHOOSE k \in 1..Len(tbl) : tbl[k].id = f]

\* insert e into the sorted sequence s behind every element whose key is not larger
RECURSIVE Insert(_, _, _)
Insert(s, e, key) ==
    IF s = <<>> THEN <<e>>
    ELSE IF key[e] < key[s[Len(s)]] THEN Append(Insert(SubSeq(s, 1, Len(s) - 1), e, key), s[Len(s)])
    ELSE Append(s, e)

\* sort_values: the elements of s by ascending key, equal keys in their order in s
RECURSIVE sort_values(_, _)
sort_values(s, key) ==
    IF s = <<>> THEN <<>>
    ELSE Insert(sort_values(SubSeq(s, 1, Len(s) - 1), key), s[Len(s)], key)

\* the rows of user u sorted by tracked_at, as a sequence of table positions
SortedUser(tbl, u) == sort_values(PositionsOf(tbl, u), [k \in 1..Len(tbl) |-> tbl[k].tracked_at])

\* user ids in order of first appearance (ret_pfs['user_id'].unique())
RECURSIVE unique_users(_)
unique_users(tbl) ==
    IF tbl = <<>> THEN <<>>
    ELSE LET before == unique_users(SubSeq(tbl, 1, Len(tbl) - 1))
             u == tbl[Len(tbl)].user_id
         IN IF \E k \in 1..Len(before) : before[k] = u THEN before ELSE Append(before, u)

\* user ids in ascending order (the group keys of groupby)
SortedSet(S) == sort_values(CHOOSE s \in [1..Cardinality(S) -> S] : \A a, b \in 1..Cardinality(S) : a # b => s[a] # s[b],
                            [u \in S |-> u])

---------------------------------------------------------------------------
(* _generate_staypoints_sliding_user *)

\* line 374: the distance of fix j from the anchor i exceeds the threshold
Exceeds_lt(tbl, pfs, i, j, D) == dist_func(tbl[At(pfs, i)].geom, tbl[At(pfs, j)].geom) < D
Exceeds_ge(tbl, pfs, i, j, D) == dist_func(tbl[At(pfs, i)].geom, tbl[At(pfs, j)].geom) >= D
Exceeds(tbl, pfs, i, j, D) == dist_func(tbl[At(pfs, i)].geom, tbl[At(pfs, j)].geom) > D

\* lines 369-408, the inner while: the first j at or behind the given one whose distance
\* from the anchor exceeds the threshold, num_pfs if there is none
RECURSIVE InnerWhile_short(_, _, _, _, _)
InnerWhile_short(tbl, pfs, i, j, D) ==
    IF ~(j < Len(pfs) - 1) THEN j
    ELSE IF Exceeds(tbl, pfs, i, j, D) THEN j
    ELSE InnerWhile_short(tbl, pfs, i, j + 1, D)
RECURSIVE InnerWhile(_, _, _, _, _)
InnerWhile(tbl, pfs, i, j, D) ==
    IF ~(j < Len(pfs)) THEN j
    ELSE IF Exceeds(tbl, pfs, i, j, D) THEN j
    ELSE InnerWhile(tbl, pfs, i, j + 1, D)

\* lines 377-387: the staypoint of the window [i, j)
WindowStaypoint_incl(tbl, pfs, i, j) ==
    [user_id |-> tbl[At(pfs, i)].user_id,
     started_at |-> tbl[At(pfs, i)].tracked_at,
     finished_at |-> tbl[At(pfs, j)].tracked_at,
     pfs_id |-> [k \in 1..(j - i + 1) |-> tbl[At(pfs, i + k - 1)].id]]
WindowStaypoint(tbl, pfs, i, j) ==
    [user_id |-> tbl[At(pfs, i)].user_id,
     started_at |-> tbl[At(pfs, i)].tracked_at,
     finished_at |-> tbl[At(pfs, j - 1)].tracked_at,
     pfs_id |-> [k \in 1..(j - i) |-> tbl[At(pfs, i + k - 1)].id]]

\* lines 395-403: the staypoint of the last fix alone
LastStaypoint(tbl, pfs, j) ==
    [user_id |-> tbl[At(pfs, j)].user_id,
     started_at |-> tbl[At(pfs, j)].tracked_at,
     finished_at |-> tbl[At(pfs, j)].tracked_at,
     pfs_id |-> <<tbl[At(pfs, j)].id>>]

\* line 376
TimeExceeds_lt(tbl, pfs, i, j, T) == tbl[At(pfs, j)].tracked_at - tbl[At(pfs, i)].tracked_at < T
TimeExceeds_ge(tbl, pfs, i, j, T) == tbl[At(pfs, j)].tracked_at - tbl[At(pfs, i)].tracked_at >= T
TimeExceeds(tbl, pfs, i, j, T) == tbl[At(pfs, j)].tracked_at - tbl[At(pfs, i)].tracked_at > T

\* lines 376-405: what the window closed at j appends to ret_spts
Emitted_anyj(tbl, pfs, i, j, T) ==
    IF TimeExceeds(tbl, pfs, i, j, T)
    THEN <<WindowStaypoint(tbl, pfs, i, j), LastStaypoint(tbl, pfs, j)>>
    ELSE <<>>
Emitted(tbl, pfs, i, j, T) ==
    IF TimeExceeds(tbl, pfs, i, j, T)
    THEN IF j = Len(pfs) - 1
         THEN <<WindowStaypoint(tbl, pfs, i, j), LastStaypoint(tbl, pfs, j)>>
         ELSE <<WindowStaypoint(tbl, pfs, i, j)>>
    ELSE <<>>

\* lines 359-360
ScanStart == [i |-> 0, j |-> 0, ret_spts |-> <<>>, done |-> FALSE]

\* lines 361-408: one iteration of the outer while, on the loop state s
OuterIteration_noadvance(tbl, pfs, s, D, T) ==
    IF ~(s.i < Len(pfs)) THEN [s EXCEPT !.done = TRUE]
    ELSE IF s.j = Len(pfs) THEN [s EXCEPT !.done = TRUE]
    ELSE [s EXCEPT !.j = InnerWhile(tbl, pfs, s.i, s.i + 1, D)]
OuterIteration(tbl, pfs, s, D, T) ==
    IF ~(s.i < Len(pfs)) THEN [s EXCEPT !.done = TRUE]
    ELSE IF s.j = Len(pfs) THEN [s EXCEPT !.done = TRUE]
    ELSE LET j == InnerWhile(tbl, pfs, s.i, s.i + 1, D)
         IN IF j < Len(pfs)
            THEN [i |-> j, j |-> j, ret_spts |-> s.ret_spts \o Emitted(tbl, pfs, s.i, j, T), done |-> FALSE]
            ELSE [s EXCEPT !.j = j]

RECURSIVE OuterWhile(_, _, _, _, _)
OuterWhile(tbl, pfs, s, D, T) ==
    IF s.done THEN s.ret_spts ELSE OuterWhile(tbl, pfs, OuterIteration(tbl, pfs, s, D, T), D, T)

\* lines 344-410, for the rows of user u
generate_staypoints_sliding_user(tbl, u, D, T) == OuterWhile(tbl, SortedUser(tbl, u), ScanStart, D, T)

---------------------------------------------------------------------------
(* generate_staypoints, method 'sliding' *)

RECURSIVE Concat(_)
Concat(ss) == IF ss = <<>> THEN <<>> ELSE Concat(SubSeq(ss, 1, Len(ss) - 1)) \o ss[Len(ss)]

UsersOf(tbl) == {tbl[k].user_id : k \in 1..Len(tbl)}

\* lines 77-82: the staypoints of every user, the users in the order of the group keys
GroupbyApply(tbl, D, T) ==
    LET keys == SortedSet(UsersOf(tbl))
    IN Concat([k \in 1..Len(keys) |-> generate_staypoints_sliding_user(tbl, keys[k], D, T)])

\* lines 84-85: the id of a staypoint is its row number
SetIds_from1(spts) == [k \in 1..Len(spts) |-> [id |-> k] @@ spts[k]]
SetIds(spts) == [k \in 1..Len(spts) |-> [id |-> k - 1] @@ spts[k]]

\* lines 89-95: temp, one row [id, staypoint_id] for every member of every staypoint
Temp(spts) ==
    Concat([k \in 1..Len(spts) |->
               [m \in 1..Len(spts[k].pfs_id) |-> [id |-> spts[k].pfs_id[m], staypoint_id |-> spts[k].id]]])

\* line 97: ret_pfs.join(temp, how='left'): a row of ret_pfs for every row of temp with
\* its id, one row with NaN where there is none
JoinLeft(tbl, temp) ==
    Concat([k \in 1..Len(tbl) |->
               LET m == SelectSeq(temp, LAMBDA e : e.id = tbl[k].id)
               IN IF m = <<>> THEN <<[tbl[k] EXCEPT !.staypoint_id = NaN]>>
                  ELSE [n \in 1..Len(m) |-> [tbl[k] EXCEPT !.staypoint_id = m[n].staypoint_id]]])

\* line 98: the staypoints without the pfs_id column
DropPfsId(spts) ==
    [k \in 1..Len(spts) |-> [id |-> spts[k].id, user_id |-> spts[k].user_id,
                             started_at |-> spts[k].started_at, finished_at |-> spts[k].finished_at]]

\* lines 67, 181: ret_pfs = positionfixes.copy(); shared tells whether ret_pfs is the
\* caller's table itself, which gets every write made to ret_pfs in place
copy_alias(tbl) == [shared |-> TRUE, rows |-> tbl]
copy(tbl) == [shared |-> FALSE, rows |-> tbl]

\* the caller's table tbl after generate_staypoints(tbl, 'sliding', D, T): line 101 writes
\* the column staypoint_id to ret_pfs in place, the join of line 97 makes a new table, and
\* the groups that line 351 sorts in place are tables of their own
positionfixes_after(tbl, D, T) ==
    LET ret_pfs == copy(tbl)
    IN IF ret_pfs.shared /\ GroupbyApply(tbl, D, T) = <<>>
       THEN [k \in 1..Len(tbl) |-> [tbl[k] EXCEPT !.staypoint_id = NaN]]
       ELSE tbl

\* lines 75-101: [ret_pfs, ret_spts, stps2pfs_map] of generate_staypoints(tbl, 'sliding', D, T)
generate_staypoints_sliding(tbl, D, T) ==
    LET spts == SetIds(GroupbyApply(tbl, D, T))
    IN IF spts # <<>>
       THEN [ret_pfs |-> JoinLeft(tbl, Temp(spts)),
             ret_spts |-> DropPfsId(spts),
             stps2pfs_map |-> [k \in 1..Len(spts) |-> spts[k].pfs_id]]
       ELSE [ret_pfs |-> [k \in 1..Len(tbl) |-> [tbl[k] EXCEPT !.staypoint_id = NaN]],
             ret_spts |-> <<>>,
             stps2pfs_map |-> <<>>]

---------------------------------------------------------------------------
(* generate_triplegs *)

\* the staypoint_id of a fix that is in no staypoint, in case 3 (line 268)
NoStaypoint == -1

Max(S) == CHOOSE m \in S : \A n \in S : n <= m
Min(S) == CHOOSE m \in S : \A n \in S : m <= n

\* "staypoint_id" in pfs (line 202)
HasStaypointId(tbl) == \A k \in 1..Len(tbl) : tbl[k].staypoint_id # Absent

\* ret_pfs['staypoint_id'].unique() (line 185): NaN is one value
UniqueStaypointIds(tbl) == {tbl[k].staypoint_id : k \in 1..Len(tbl)}

\* line 185
TooFewStaypointIds_le(tbl) == Cardinality(UniqueStaypointIds(tbl)) < 1
TooFewStaypointIds(tbl) == Cardinality(UniqueStaypointIds(tbl)) < 2

\* lines 203-204, 239-240: the staypoints of user u sorted by started_at
StaypointsOf(stps, u) ==
    LET pos == sort_values(SelectSeq([k \in 1..Len(stps) |-> k], LAMBDA k : stps[k].user_id = u),
                           [k \in 1..Len(stps) |-> stps[k].started_at])
    IN [k \in 1..Len(pos) |-> stps[pos[k]]]

\* lines 226, 247, 276, 296: a tripleg needs more than one coordinate
EnoughCoords_ge1(coords) == Len(coords) >= 1
EnoughCoords(coords) == Len(coords) > 1

\* lines 221-233, 246-254: the tripleg of the rows pfs_tripleg (positions of tbl), which
\* are not empty
RangeTripleg_first(tbl, pfs_tripleg, id, u) ==
    [id |-> id, user_id |-> u,
     started_at |-> tbl[pfs_tripleg[1]].tracked_at,
     finished_at |-> tbl[pfs_tripleg[1]].tracked_at,
     coords |-> [k \in 1..Len(pfs_tripleg) |-> tbl[pfs_tripleg[k]].id]]
RangeTripleg(tbl, pfs_tripleg, id, u) ==
    [id |-> id, user_id |-> u,
     started_at |-> tbl[pfs_tripleg[1]].tracked_at,
     finished_at |-> tbl[pfs_tripleg[Len(pfs_tripleg)]].tracked_at,
     coords |-> [k \in 1..Len(pfs_tripleg) |-> tbl[pfs_tripleg[k]].id]]

\* lines 226-234, 247-255: the tripleg is appended when it has enough coordinates; c is
\* [curr_tripleg_id, generated_triplegs, raised]
AppendRange(tbl, pfs_tripleg, u, c) ==
    IF EnoughCoords(pfs_tripleg)
    THEN [c EXCEPT !.generated_triplegs = Append(@, RangeTripleg(tbl, pfs_tripleg, c.curr_tripleg_id, u)),
                   !.curr_tripleg_id = @ + 1]
    ELSE c

\* lines 209-234: the tripleg between two consecutive staypoints, case 1: from the last
\* fix of the first staypoint to the first fix of the second; index[-1], index[0] and
\* iloc[0] raise IndexError on an empty selection
Case1Pair_excl(tbl, pfs, u, stp1, stp2, c) ==
    LET P1 == {p \in 0..Len(pfs) - 1 : Eq(tbl[At(pfs, p)].staypoint_id, stp1.id)}
        P2 == {p \in 0..Len(pfs) - 1 : Eq(tbl[At(pfs, p)].staypoint_id, stp2.id)}
    IN IF P1 = {} \/ P2 = {} THEN [c EXCEPT !.raised = "IndexError"]
       ELSE LET position_first_posfix_tl == Max(P1)
                position_last_posfix_tl == Min(P2)
                pfs_tripleg == SubSeq(pfs, position_first_posfix_tl + 2, position_last_posfix_tl + 1)
            IN IF pfs_tripleg = <<>> THEN [c EXCEPT !.raised = "IndexError"]
               ELSE AppendRange(tbl, pfs_tripleg, u, c)
Case1Pair(tbl, pfs, u, stp1, stp2, c) ==
    LET P1 == {p \in 0..Len(pfs) - 1 : Eq(tbl[At(pfs, p)].staypoint_id, stp1.id)}
        P2 == {p \in 0..Len(pfs) - 1 : Eq(tbl[At(pfs, p)].staypoint_id, stp2.id)}
    IN IF P1 = {} \/ P2 = {} THEN [c EXCEPT !.raised = "IndexError"]
       ELSE LET position_first_posfix_tl == Max(P1)
                position_last_posfix_tl == Min(P2)
                pfs_tripleg == SubSeq(pfs, position_first_posfix_tl + 1, position_last_posfix_tl + 1)
            IN IF pfs_tripleg = <<>> THEN [c EXCEPT !.raised = "IndexError"]
               ELSE AppendRange(tbl, pfs_tripleg, u, c)

\* lines 243-255: the tripleg between two consecutive staypoints, case 2: the fixes from
\* the end of the first staypoint to the start of the second
Case2Pair_open(tbl, pfs, u, stp1, stp2, c) ==
    LET pfs_tripleg == sort_values(SelectSeq(pfs, LAMBDA k : stp1.finished_at < tbl[k].tracked_at
                                                             /\ tbl[k].tracked_at <= stp2.started_at),
                                   [k \in 1..Len(tbl) |-> tbl[k].tracked_at])
    IN AppendRange(tbl, pfs_tripleg, u, c)
Case2Pair(tbl, pfs, u, stp1, stp2, c) ==
    LET pfs_tripleg == sort_values(SelectSeq(pfs, LAMBDA k : stp1.finished_at <= tbl[k].tracked_at
                                                             /\ tbl[k].tracked_at <= stp2.started_at),
                                   [k \in 1..Len(tbl) |-> tbl[k].tracked_at])
    IN AppendRange(tbl, pfs_tripleg, u, c)

\* lines 205, 241: for stp1, stp2 in zip(stps, stps[1:]), from the k-th pair on
RECURSIVE PairsLoop(_, _, _, _, _, _, _)
PairsLoop(tbl, pfs, u, stps, k, case, c) ==
    IF k + 1 > Len(stps) \/ c.raised # "none" THEN c
    ELSE PairsLoop(tbl, pfs, u, stps, k + 1, case,
                   IF case = 1 THEN Case1Pair(tbl, pfs, u, stps[k], stps[k + 1], c)
                   ELSE Case2Pair(tbl, pfs, u, stps[k], stps[k + 1], c))

\* lines 260-266, 282-283, 302-308: a fresh curr_tripleg
NewTripleg(id, u, started_at, coords) ==
    [id |-> id, user_id |-> u, started_at |-> started_at, finished_at |-> None, coords |-> coords]

\* lines 276-280, 296-300: curr_tripleg is appended when it has enough coordinates
Close_sameid(c) ==
    IF EnoughCoords(c.curr_tripleg.coords)
    THEN [c EXCEPT !.generated_triplegs = Append(@, c.curr_tripleg)]
    ELSE c
Close(c) ==
    IF EnoughCoords(c.curr_tripleg.coords)
    THEN [c EXCEPT !.generated_triplegs = Append(@, c.curr_tripleg), !.curr_tripleg_id = @ + 1]
    ELSE c

\* lines 268-323: the body of the loop of case 3 for the fix at position p of pfs; c is
\* [prev_pf, curr_tripleg, curr_tripleg_id, generated_triplegs, raised, tripleg_id], prev_pf a
\* position of pfs or None, tripleg_id the column written to pfs
Case3Step(tbl, pfs, u, p, c) ==
    LET pf == tbl[At(pfs, p)]
        sp == pf.staypoint_id
        prev == IF c.prev_pf = None THEN None ELSE tbl[At(pfs, c.prev_pf)].staypoint_id
        d == IF c.prev_pf # None /\ Eq(prev, NoStaypoint) /\ Ne(sp, NoStaypoint)
             THEN \* this tripleg ends
                  [c EXCEPT !.tripleg_id[pf.id] = c.curr_tripleg_id,
                            !.curr_tripleg.finished_at = pf.tracked_at,
                            !.curr_tripleg.coords = Append(@, pf.id)]
             ELSE IF c.prev_pf # None /\ Ne(prev, NoStaypoint) /\ Eq(sp, NoStaypoint)
             THEN \* a new tripleg starts, the fix has left a staypoint
                  LET e == Close(c)
                  IN [e EXCEPT !.curr_tripleg = NewTripleg(e.curr_tripleg_id, u, pf.tracked_at, <<pf.id>>),
                               !.tripleg_id[pf.id] = e.curr_tripleg_id]
             ELSE IF c.prev_pf # None /\ Ne(prev, NoStaypoint) /\ Ne(sp, NoStaypoint) /\ Ne(prev, sp)
             THEN \* a new tripleg starts, the fix is in another staypoint
                  LET e == Close([c EXCEPT !.curr_tripleg.finished_at = pf.tracked_at,
                                           !.curr_tripleg.coords = Append(@, pf.id)])
                  IN [e EXCEPT !.curr_tripleg = NewTripleg(e.curr_tripleg_id, u, pf.tracked_at, <<pf.id>>),
                               !.tripleg_id[pf.id] = e.curr_tripleg_id]
             ELSE IF c.prev_pf # None /\ Ne(prev, NoStaypoint) /\ Eq(prev, sp)
             THEN \* still at the same staypoint
                  c
             ELSE [c EXCEPT !.tripleg_id[pf.id] = c.curr_tripleg_id,
                            !.curr_tripleg.coords = Append(@, pf.id)]
    IN [d EXCEPT !.prev_pf = p]

\* line 267: for idx, pf in pfs.iterrows(), from position p on
RECURSIVE Case3Loop(_, _, _, _, _)
Case3Loop(tbl, pfs, u, p, c) ==
    IF ~(p < Len(pfs)) THEN c ELSE Case3Loop(tbl, pfs, u, p + 1, Case3Step(tbl, pfs, u, p, c))

\* lines 259-323: case 3 for user u; the open curr_tripleg is dropped at the end of the loop
Case3User(tbl, pfs, u, c) ==
    LET start == [prev_pf |-> None,
                  curr_tripleg |-> NewTripleg(c.curr_tripleg_id, u, tbl[At(pfs, 0)].tracked_at, <<>>),
                  curr_tripleg_id |-> c.curr_tripleg_id,
                  generated_triplegs |-> <<>>,
                  raised |-> "none",
                  tripleg_id |-> c.tripleg_id]
        end == Case3Loop(tbl, pfs, u, 0, start)
    IN [curr_tripleg_id |-> end.curr_tripleg_id,
        generated_triplegs |-> end.generated_triplegs,
        raised |-> "none",
        tripleg_id |-> end.tripleg_id]

\* lines 197-325: one iteration of the loop over the users; c is
\* [curr_tripleg_id, ret_tpls, raised, tripleg_id]
UserIteration(tbl, staypoints, u, c) ==
    LET pfs == SortedUser(tbl, u)
        c0 == [curr_tripleg_id |-> c.curr_tripleg_id, generated_triplegs |-> <<>>,
               raised |-> "none", tripleg_id |-> c.tripleg_id]
        r == IF staypoints.given /\ HasStaypointId(tbl)
             THEN PairsLoop(tbl, pfs, u, StaypointsOf(staypoints.rows, u), 1, 1, c0)
             ELSE IF staypoints.given
             THEN PairsLoop(tbl, pfs, u, StaypointsOf(staypoints.rows, u), 1, 2, c0)
             ELSE Case3User(tbl, pfs, u, c0)
    IN [curr_tripleg_id |-> r.curr_tripleg_id,
        ret_tpls |-> c.ret_tpls \o r.generated_triplegs,
        raised |-> r.raised,
        tripleg_id |-> r.tripleg_id]

\* line 195: for user_id_this in ret_pfs['user_id'].unique(), from the k-th user on
RECURSIVE UsersLoop(_, _, _, _, _)
UsersLoop(tbl, staypoints, users, k, c) ==
    IF k > Len(users) \/ c.raised # "none" THEN c
    ELSE UsersLoop(tbl, staypoints, users, k + 1, UserIteration(tbl, staypoints, users[k], c))

NoStaypoints == [given |-> FALSE, rows |-> <<>>]

\* line 193
TriplegsStart_from1(tbl) ==
    [curr_tripleg_id |-> 1, ret_tpls |-> <<>>, raised |-> "none",
     tripleg_id |-> [f \in {tbl[k].id : k \in 1..Len(tbl)} |-> Absent]]
TriplegsStart(tbl) ==
    [curr_tripleg_id |-> 0, ret_tpls |-> <<>>, raised |-> "none",
     tripleg_id |-> [f \in {tbl[k].id : k \in 1..Len(tbl)} |-> Absent]]

\* lines 181-341: [ret_pfs, ret_tpls, raised, tripleg_id] of generate_triplegs(tbl, staypoints).
\* ret_pfs is the copy of line 181: the loop writes tripleg_id to pfs, the sorted copy of
\* the user's rows (line 198), and to prev_pf, a copy of a row, never to ret_pfs
generate_triplegs(tbl, staypoints) ==
    IF ~staypoints.given /\ ~HasStaypointId(tbl)
    THEN [ret_pfs |-> <<>>, ret_tpls |-> <<>>, raised |-> "KeyError", tripleg_id |-> TriplegsStart(tbl).tripleg_id]
    ELSE IF ~staypoints.given /\ TooFewStaypointIds(tbl)
    THEN [ret_pfs |-> <<>>, ret_tpls |-> <<>>, raised |-> "ValueError", tripleg_id |-> TriplegsStart(tbl).tripleg_id]
    ELSE LET r == UsersLoop(tbl, staypoints, unique_users(tbl), 1, TriplegsStart(tbl))
         IN IF r.raised # "none"
            THEN [ret_pfs |-> <<>>, ret_tpls |-> <<>>, raised |-> r.raised, tripleg_id |-> r.tripleg_id]
            ELSE [ret_pfs |-> tbl, ret_tpls |-> r.ret_tpls, raised |-> "none", tripleg_id |-> r.tripleg_id]

---------------------------------------------------------------------------
(* The inputs *)

\* the tracked_at columns of n rows in ascending order
SortedTimes(n) == {ts \in [1..n -> Times] : \A k \in 1..(n - 1) : ts[k] <= ts[k + 1]}

\* the table of the columns us, ts, xs, ls, with ids 1..n and no tripleg_id column
Table(us, ts, xs, ls) ==
    [k \in 1..Len(ts) |-> [id |-> k, user_id |-> us[k], tracked_at |-> ts[k], geom |-> xs[k],
                           staypoint_id |-> ls[k], tripleg_id |-> Absent]]

\* positionfixes is a table of at most max rows in the order of tracked_at, with user ids
\* of U, coordinates of X and staypoint_id values of L
InputTable(max, U, X, L) ==
    \E n \in 0..max : \E ts \in SortedTimes(n), us \in [1..n -> U], xs \in [1..n -> X], ls \in [1..n -> L] :
        positionfixes = Table(us, ts, xs, ls)

\* positionfixes without a staypoint_id column
RawInput == InputTable(MaxFixes, Users, Coords, {Absent}) /\ positionfixes # <<>>

\* positionfixes with a staypoint_id column of the caller's, NoStaypoint for no staypoint;
\* generate_triplegs copies the coordinates and never compares them
LabelledInput == InputTable(MaxFixes, Users, {0}, Labels) /\ positionfixes # <<>>

Idle ==
    /\ dist_threshold = 0
    /\ time_threshold = 0
    /\ sp_ret_pfs = <<>>
    /\ sp_ret_spts = <<>>
    /\ stps2pfs_map = <<>>
    /\ tpl_pfs = <<>>
    /\ tpl_staypoints = NoStaypoints
    /\ tpl_ret_pfs = <<>>
    /\ ret_tpls = <<>>
    /\ pfs_tripleg_id = <<>>
    /\ raised = "none"
    /\ scan = ScanStart
    /\ runs = <<>>

---------------------------------------------------------------------------
(* The calls of the two functions by a caller who holds positionfixes *)

Init ==
    /\ RawInput \/ LabelledInput
    /\ pc = "input"
    /\ Idle

\* generate_staypoints(positionfixes, 'sliding', D, T)
GenerateStaypoints(D, T) ==
    /\ pc = "input"
    /\ ~HasStaypointId(positionfixes)
    /\ LET r == generate_staypoints_sliding(positionfixes, D, T)
       IN /\ sp_ret_pfs' = r.ret_pfs
          /\ sp_ret_spts' = r.ret_spts
          /\ stps2pfs_map' = r.stps2pfs_map
    /\ dist_threshold' = D
    /\ time_threshold' = T
    /\ positionfixes' = positionfixes_after(positionfixes, D, T)
    /\ pc' = "staypoints"
    /\ UNCHANGED <<tpl_pfs, tpl_staypoints, tpl_ret_pfs, ret_tpls, pfs_tripleg_id, raised, scan, runs>>

\* generate_triplegs(tbl, staypoints)
GenerateTriplegs(tbl, staypoints) ==
    /\ pc \in {"input", "staypoints"}
    /\ LET r == generate_triplegs(tbl, staypoints)
       IN /\ tpl_ret_pfs' = r.ret_pfs
          /\ ret_tpls' = r.ret_tpls
          /\ raised' = r.raised
          /\ pfs_tripleg_id' = r.tripleg_id
    /\ tpl_pfs' = tbl
    /\ tpl_staypoints' = staypoints
    /\ pc' = "triplegs"
    /\ UNCHANGED <<positionfixes, dist_threshold, time_threshold, sp_ret_pfs, sp_ret_spts,
                   stps2pfs_map, scan, runs>>

\* the tables the caller holds
HeldPositionfixes == {positionfixes} \cup (IF pc = "staypoints" THEN {sp_ret_pfs} ELSE {})
HeldStaypoints == {NoStaypoints} \cup (IF pc = "staypoints" THEN {[given |-> TRUE, rows |-> sp_ret_spts]} ELSE {})

Next ==
    \/ \E D \in Coords, T \in TimeThresholds : GenerateStaypoints(D, T)
    \/ \E tbl \in HeldPositionfixes, staypoints \in HeldStaypoints : GenerateTriplegs(tbl, staypoints)

Spec == Init /\ [][Next]_vars

---------------------------------------------------------------------------
(* _generate_staypoints_sliding_user on the positionfixes of one user, an iteration
   of the outer while at a time *)

InitScan ==
    /\ InputTable(MaxFixes, {1}, Coords, {Absent})
    /\ pc = "scan"
    /\ sp_ret_pfs = <<>>
    /\ sp_ret_spts = <<>>
    /\ stps2pfs_map = <<>>
    /\ tpl_pfs = <<>>
    /\ tpl_staypoints = NoStaypoints
    /\ tpl_ret_pfs = <<>>
    /\ ret_tpls = <<>>
    /\ pfs_tripleg_id = <<>>
    /\ raised = "none"
    /\ runs = <<>>
    /\ dist_threshold \in Coords
    /\ time_threshold \in TimeThresholds
    /\ scan = ScanStart

ScanIteration ==
    /\ pc = "scan"
    /\ ~scan.done
    /\ \E pfs \in {SortedUser(positionfixes, 1)} :
           scan' = OuterIteration(positionfixes, pfs, scan, dist_threshold, time_threshold)
    /\ UNCHANGED <<positionfixes, pc, dist_threshold, time_threshold, sp_ret_pfs, sp_ret_spts,
                   stps2pfs_map, tpl_pfs, tpl_staypoints, tpl_ret_pfs, ret_tpls, pfs_tripleg_id,
                   raised, runs>>

NextScan == ScanIteration

SpecScan == InitScan /\ [][NextScan]_vars

---------------------------------------------------------------------------
(* _generate_staypoints_sliding_user from its call on: the call passes the
   positionfixes of one user and the thresholds, and the loop runs on until it is left *)

InitCall ==
    /\ positionfixes = <<>>
    /\ pc = "call"
    /\ Idle

CallSlidingUser ==
    /\ pc = "call"
    /\ \E n \in 0..MaxScan : \E ts \in SortedTimes(n), xs \in [1..n -> Coords] :
           positionfixes' = Table([k \in 1..n |-> 1], ts, xs, [k \in 1..n |-> Absent])
    /\ dist_threshold' \in Coords
    /\ time_threshold' \in TimeThresholds
    /\ scan' = ScanStart
    /\ pc' = "scan"
    /\ UNCHANGED <<sp_ret_pfs, sp_ret_spts, stps2pfs_map, tpl_pfs, tpl_staypoints, tpl_ret_pfs,
                   ret_tpls, pfs_tripleg_id, raised, runs>>

NextCall == CallSlidingUser \/ ScanIteration

SpecScanFair == InitCall /\ [][NextCall]_vars /\ WF_vars(NextCall)

---------------------------------------------------------------------------
(* generate_staypoints called on one table with two pairs of thresholds *)

InitRuns ==
    /\ InputTable(MaxRuns, {1}, 0..MaxX, {Absent})
    /\ pc = "input"
    /\ Idle

CallTwice(D1, T1, D2, T2) ==
    /\ pc = "input"
    /\ runs' = <<[dist_threshold |-> D1, time_threshold |-> T1,
                  ret |-> generate_staypoints_sliding(positionfixes, D1, T1)],
                 [dist_threshold |-> D2, time_threshold |-> T2,
                  ret |-> generate_staypoints_sliding(positionfixes, D2, T2)]>>
    /\ pc' = "returned"
    /\ UNCHANGED <<positionfixes, dist_threshold, time_threshold, sp_ret_pfs, sp_ret_spts,
                   stps2pfs_map, tpl_pfs, tpl_staypoints, tpl_ret_pfs, ret_tpls, pfs_tripleg_id,
                   raised, scan>>

NextRuns ==
    \E D1 \in 0..MaxX, D2 \in 0..MaxX, T1 \in TimeThresholds, T2 \in TimeThresholds :
        D1 <= D2 /\ T1 <= T2 /\ CallTwice(D1, T1, D2, T2)

SpecRuns == InitRuns /\ [][NextRuns]_vars

---------------------------------------------------------------------------
(* generate_triplegs called with a staypoints table of the caller's on positionfixes
   without a staypoint_id column *)

\* the staypoints table of the columns us, ss, fs, with ids 0..n-1
StaypointsTable(us, ss, fs) ==
    [k \in 1..Len(us) |-> [id |-> k - 1, user_id |-> us[k], started_at |-> ss[k], finished_at |-> fs[k]]]

InitGiven ==
    /\ \E n \in 1..MaxGiven : \E ts \in [1..n -> GivenTimes], us \in [1..n -> Users] :
           /\ \A k \in 1..(n - 1) : ts[k] <= ts[k + 1]
           /\ positionfixes = Table(us, ts, [k \in 1..n |-> 0], [k \in 1..n |-> Absent])
    /\ \E n \in 0..MaxStps : \E us \in [1..n -> Users], ss \in [1..n -> GivenTimes], fs \in [1..n -> GivenTimes] :
           /\ \A k \in 1..n : ss[k] <= fs[k]
           /\ tpl_staypoints = [given |-> TRUE, rows |-> StaypointsTable(us, ss, fs)]
    /\ pc = "input"
    /\ dist_threshold = 0
    /\ time_threshold = 0
    /\ sp_ret_pfs = <<>>
    /\ sp_ret_spts = <<>>
    /\ stps2pfs_map = <<>>
    /\ tpl_pfs = <<>>
    /\ tpl_ret_pfs = <<>>
    /\ ret_tpls = <<>>
    /\ pfs_tripleg_id = <<>>
    /\ raised = "none"
    /\ scan = ScanStart
    /\ runs = <<>>

NextGiven == pc = "input" /\ GenerateTriplegs(positionfixes, tpl_staypoints)

SpecGiven == InitGiven /\ [][NextGiven]_vars

---------------------------------------------------------------------------
(* Properties of the sliding window *)

\* the fixes of the one user of SpecScan in the order of tracked_at, and their number
ScanPfs == SortedUser(positionfixes, 1)
ScanNum == Len(ScanPfs)
ScanFix(k) == positionfixes[At(ScanPfs, k)]

\* the fixes behind the anchor i that are farther from it than dist_threshold
Beyond(i) == {j \in (i + 1)..(ScanNum - 1) : dist_func(ScanFix(i).geom, ScanFix(j).geom) > dist_threshold}

\* the staypoints an iteration has appended
Appended == SubSeq(scan'.ret_spts, Len(scan.ret_spts) + 1, Len(scan'.ret_spts))

C1_Iteration ==
    (pc = "scan" /\ ~scan.done /\ scan.i < ScanNum /\ scan.j # ScanNum) =>
        /\ SubSeq(scan'.ret_spts, 1, Len(scan.ret_spts)) = scan.ret_spts
        /\ IF Beyond(scan.i) = {}
           THEN Appended = <<>> /\ scan'.i = scan.i
           ELSE LET i == scan.i
                    j == Min(Beyond(scan.i))
                IN /\ scan'.i = j
                   /\ Appended # <<>> <=> ScanFix(j).tracked_at - ScanFix(i).tracked_at > time_threshold
                   /\ Appended # <<>> =>
                         /\ Appended[1].pfs_id = [k \in 1..(j - i) |-> ScanFix(i + k - 1).id]
                         /\ Appended[1].started_at = ScanFix(i).tracked_at
                         /\ Appended[1].finished_at = ScanFix(j - 1).tracked_at

\* C1: in every iteration of the sliding scan with anchor i, j being the first index behind
\* i whose fix is farther than dist_threshold from fix i: a staypoint is appended exactly
\* when j exists and tracked_at(j) - tracked_at(i) > time_threshold, its members are the
\* fixes i..j-1, it starts at tracked_at(i) and ends at tracked_at(j-1), and the next
\* anchor is j whether or not a staypoint was appended
C1_SlidingWindow == [][C1_Iteration]_vars

\* C1 witness: the scan has closed a window with a staypoint and one without
C1_Witness ==
    /\ pc = "scan"
    /\ scan.done
    /\ Len(scan.ret_spts) = 1
    /\ \E j \in Beyond(0) : Beyond(j) # {} /\ scan.i > Min(Beyond(0))

\* the fixes of user u in table tbl
FixesOf(tbl, u) == {k \in 1..Len(tbl) : tbl[k].user_id = u}

\* all fixes of user u lie within dist_threshold of each other, and they span more than
\* time_threshold
StaysPut(u) ==
    /\ \A a, b \in FixesOf(positionfixes, u) :
           dist_func(positionfixes[a].geom, positionfixes[b].geom) <= dist_threshold
    /\ \E a, b \in FixesOf(positionfixes, u) :
           positionfixes[b].tracked_at - positionfixes[a].tracked_at > time_threshold

\* the staypoints of user u returned by generate_staypoints
StaypointsFor(u) == {k \in 1..Len(sp_ret_spts) : sp_ret_spts[k].user_id = u}

\* C2 as claimed: a user whose fixes all lie within dist_threshold of each other and span
\* more than time_threshold gets exactly one staypoint, whose members are all the fixes
C2_Original ==
    pc = "staypoints" =>
        \A u \in UsersOf(positionfixes) :
            StaysPut(u) =>
                /\ Cardinality(StaypointsFor(u)) = 1
                /\ \A k \in StaypointsFor(u) :
                       {stps2pfs_map[k][m] : m \in 1..Len(stps2pfs_map[k])}
                           = {positionfixes[f].id : f \in FixesOf(positionfixes, u)}

\* C2 amended: a user whose fixes all lie within dist_threshold of each other gets no
\* staypoint, however long the fixes span: no window of the user is ever closed, and every
\* fix of the user has a null staypoint_id
C2_NoStaypoint ==
    pc = "staypoints" =>
        \A u \in UsersOf(positionfixes) :
            StaysPut(u) =>
                /\ StaypointsFor(u) = {}
                /\ \A k \in 1..Len(sp_ret_pfs) : sp_ret_pfs[k].user_id = u => sp_ret_pfs[k].staypoint_id = NaN

\* C2 witness: three fixes of a user within dist_threshold spanning more than time_threshold
C2_Witness ==
    /\ pc = "staypoints"
    /\ \E u \in UsersOf(positionfixes) :
           /\ Cardinality(FixesOf(positionfixes, u)) = 3
           /\ StaysPut(u)
           /\ StaypointsFor(u) = {}

\* the members of staypoint k as a set
Members(k) == {stps2pfs_map[k][m] : m \in 1..Len(stps2pfs_map[k])}

\* C3: after generate_staypoints the member lists of the staypoints are pairwise disjoint,
\* no list names a fix twice, and the returned positionfixes have one row for every input
\* fix, in the order of the input
C3_Disjoint ==
    pc = "staypoints" =>
        /\ \A a, b \in 1..Len(stps2pfs_map) : a # b => Members(a) \cap Members(b) = {}
        /\ \A a \in 1..Len(stps2pfs_map) : Cardinality(Members(a)) = Len(stps2pfs_map[a])
        /\ Len(sp_ret_pfs) = Len(positionfixes)
        /\ \A k \in 1..Len(sp_ret_pfs) : sp_ret_pfs[k].id = positionfixes[k].id

\* C3 witness: a staypoint of several fixes followed by the staypoint of the last fix alone
C3_Witness ==
    /\ pc = "staypoints"
    /\ \E a \in 1..Len(stps2pfs_map) :
           /\ Len(stps2pfs_map[a]) > 1
           /\ a + 1 <= Len(stps2pfs_map)
           /\ Len(stps2pfs_map[a + 1]) = 1
           /\ sp_ret_spts[a + 1].user_id = sp_ret_spts[a].user_id
           /\ sp_ret_spts[a + 1].started_at = sp_ret_spts[a + 1].finished_at

---------------------------------------------------------------------------
(* Properties of the triplegs *)

\* generate_triplegs has returned its tables
Returned == pc = "triplegs" /\ raised = "none"

\* the constituents of tripleg k: the fixes whose coordinates its line threads
Constituents(k) == {ret_tpls[k].coords[m] : m \in 1..Len(ret_tpls[k].coords)}

\* the triplegs that fix f is a constituent of
TriplegsOf(f) == {k \in 1..Len(ret_tpls) : f \in Constituents(k)}

FixIds == {tpl_pfs[k].id : k \in 1..Len(tpl_pfs)}

C5_MinimumSize ==
    Returned => \A k \in 1..Len(ret_tpls) : Len(ret_tpls[k].coords) >= 2 /\ Cardinality(Constituents(k)) >= 2

\* C5 witness: case 3 has returned a tripleg and has dropped a run of a single fix: a fix
\* that a tripleg_id was written for is a constituent of no tripleg
C5_Witness ==
    /\ Returned
    /\ ~tpl_staypoints.given
    /\ ret_tpls # <<>>
    /\ \E k \in 1..Len(ret_tpls) : Len(ret_tpls[k].coords) = 2
    /\ \E f \in FixIds : pfs_tripleg_id[f] # Absent /\ TriplegsOf(f) = {}

\* C6 as claimed: in case 3 every fix of the returned positionfixes that is in no staypoint
\* (staypoint_id NoStaypoint) carries a tripleg_id
C6_Original ==
    (Returned /\ ~tpl_staypoints.given) =>
        \A k \in 1..Len(tpl_ret_pfs) :
            tpl_ret_pfs[k].staypoint_id # NoStaypoint \/ tpl_ret_pfs[k].tripleg_id # Absent

\* position of fix f in the sorted fixes of its user (0-based)
PosOf(f) ==
    LET pfs == SortedUser(tpl_pfs, Row(tpl_pfs, f).user_id)
    IN CHOOSE p \in 0..Len(pfs) - 1 : tpl_pfs[At(pfs, p)].id = f

\* tripleg k starts at its first constituent and ends at its last, and its constituents are
\* fixes of its user at ascending positions of the user's sorted fixes
Ordered(k) ==
    LET t == ret_tpls[k]
    IN /\ \A m \in 1..Len(t.coords) : Row(tpl_pfs, t.coords[m]).user_id = t.user_id
       /\ \A m \in 1..(Len(t.coords) - 1) : PosOf(t.coords[m]) < PosOf(t.coords[m + 1])
       /\ t.started_at = Row(tpl_pfs, t.coords[1]).tracked_at
       /\ t.finished_at = Row(tpl_pfs, t.coords[Len(t.coords)]).tracked_at

\* the constituents of tripleg k are a run of its user's sorted fixes without a gap
Contiguous(k) ==
    \A m \in 1..(Len(ret_tpls[k].coords) - 1) :
        PosOf(ret_tpls[k].coords[m + 1]) = PosOf(ret_tpls[k].coords[m]) + 1

\* the fix at position p of user u's sorted fixes rests: it has the staypoint_id of the fix
\* before it, which is neither null nor NoStaypoint
AtRest(u, p) ==
    LET pfs == SortedUser(tpl_pfs, u)
    IN /\ p > 0
       /\ tpl_pfs[At(pfs, p)].staypoint_id = tpl_pfs[At(pfs, p - 1)].staypoint_id
       /\ tpl_pfs[At(pfs, p)].staypoint_id \notin {NaN, NoStaypoint}

\* C7 as claimed: in every case the constituents of a tripleg are a run of the user's
\* sorted fixes without a gap, in order, and the tripleg starts at the first and ends at
\* the last
C7_Original == Returned => \A k \in 1..Len(ret_tpls) : Ordered(k) /\ Contiguous(k)

\* C7 amended: in every case the constituents of a tripleg are fixes of its user in the
\* order of the sorted fixes, and the tripleg starts at the first and ends at the last; with
\* staypoints given (cases 1 and 2) they are a run without a gap; in case 3 the only fixes
\* skipped between two constituents are fixes at rest, having the staypoint_id of the fix
\* before them
C7_OrderedRuns ==
    Returned =>
        \A k \in 1..Len(ret_tpls) :
            /\ Ordered(k)
            /\ tpl_staypoints.given => Contiguous(k)
            /\ ~tpl_staypoints.given =>
                   \A m \in 1..(Len(ret_tpls[k].coords) - 1) :
                       \A p \in (PosOf(ret_tpls[k].coords[m]) + 1)..(PosOf(ret_tpls[k].coords[m + 1]) - 1) :
                           AtRest(ret_tpls[k].user_id, p)

\* C7 witness: a tripleg of case 3 skips a fix at rest
C7_Witness ==
    /\ Returned
    /\ ~tpl_staypoints.given
    /\ \E k \in 1..Len(ret_tpls) : ~Contiguous(k)

\* C10: generate_triplegs raises ValueError exactly when no staypoints are given and the
\* staypoint_id column has fewer than two distinct values, and then returns no tables; with
\* staypoints given it never raises ValueError
C10_Precondition ==
    pc = "triplegs" =>
        /\ raised = "ValueError" <=>
               /\ ~tpl_staypoints.given
               /\ \A k \in 1..Len(tpl_pfs) : tpl_pfs[k].staypoint_id # Absent
               /\ \A a, b \in 1..Len(tpl_pfs) : tpl_pfs[a].staypoint_id = tpl_pfs[b].staypoint_id
        /\ raised = "ValueError" => ret_tpls = <<>> /\ tpl_ret_pfs = <<>>
        /\ tpl_staypoints.given => raised # "ValueError"

\* C10 witness: ValueError for positionfixes of two rows with one staypoint_id value
C10_Witness ==
    /\ pc = "triplegs"
    /\ raised = "ValueError"
    /\ Len(tpl_pfs) >= 2

---------------------------------------------------------------------------
(* Properties of the thresholds: runs[1] has the smaller thresholds, runs[2] the larger *)

Count(r) == Len(r.ret.ret_spts)

\* C8: with the table and dist_threshold fixed, a larger time_threshold never returns more
\* staypoints
C8_TimeMonotone ==
    (pc = "returned" /\ runs[1].dist_threshold = runs[2].dist_threshold) => Count(runs[2]) <= Count(runs[1])

\* C8 witness: the larger time_threshold returns fewer staypoints
C8_Witness ==
    /\ pc = "returned"
    /\ runs[1].dist_threshold = runs[2].dist_threshold
    /\ runs[1].time_threshold < runs[2].time_threshold
    /\ Count(runs[2]) < Count(runs[1])

\* C9 as claimed: with the table and time_threshold fixed, a larger dist_threshold never
\* returns more staypoints
C9_Original ==
    (pc = "returned" /\ runs[1].time_threshold = runs[2].time_threshold) => Count(runs[2]) <= Count(runs[1])

\* the index at which the window of anchor i closes under dist_threshold D, num_pfs if it
\* is never closed
WindowEnd(i, D) == InnerWhile(positionfixes, SortedUser(positionfixes, 1), i, i + 1, D)

\* the staypoint of run r that starts with the user's first fix
FirstWindow(r) == {k \in 1..Len(r.ret.stps2pfs_map) : r.ret.stps2pfs_map[k][1] = At(SortedUser(positionfixes, 1), 0)}

\* C9 amended: with the table fixed, a larger dist_threshold never closes the window of an
\* anchor earlier: for every anchor i the index of the first fix farther than dist_threshold
\* from fix i does not decrease, and a staypoint that starts with the first fix does not
\* lose members; the number of staypoints can go up as well as down
C9_WindowMonotone ==
    pc = "returned" =>
        /\ \A i \in 0..(Len(positionfixes) - 1) :
               WindowEnd(i, runs[1].dist_threshold) <= WindowEnd(i, runs[2].dist_threshold)
        /\ \A a \in FirstWindow(runs[1]), b \in FirstWindow(runs[2]) :
               Len(runs[1].ret.stps2pfs_map[a]) <= Len(runs[2].ret.stps2pfs_map[b])

\* C9 witness: the larger dist_threshold closes the first window later and returns more
\* staypoints
C9_Witness ==
    /\ pc = "returned"
    /\ runs[1].time_threshold = runs[2].time_threshold
    /\ runs[1].dist_threshold < runs[2].dist_threshold
    /\ WindowEnd(0, runs[1].dist_threshold) < WindowEnd(0, runs[2].dist_threshold)
    /\ Count(runs[2]) > Count(runs[1])

---------------------------------------------------------------------------
(* Properties of the identifiers *)

\* the staypoints whose member list names fix f
OwnersOf(f) == {a \in 1..Len(stps2pfs_map) : f \in Members(a)}

\* C11: after generate_staypoints over any number of users the staypoint ids are 0..n-1 in
\* the order of the rows, the staypoint_id of every fix that a member list names is the id
\* of the staypoint with that list, and it is null for every other fix
C11_Identifiers ==
    pc = "staypoints" =>
        /\ Len(stps2pfs_map) = Len(sp_ret_spts)
        /\ \A k \in 1..Len(sp_ret_spts) : sp_ret_spts[k].id = k - 1
        /\ \A k \in 1..Len(sp_ret_pfs) :
               /\ sp_ret_pfs[k] = [positionfixes[k] EXCEPT !.staypoint_id = sp_ret_pfs[k].staypoint_id]
               /\ IF OwnersOf(sp_ret_pfs[k].id) = {}
                  THEN sp_ret_pfs[k].staypoint_id = NaN
                  ELSE \E a \in OwnersOf(sp_ret_pfs[k].id) : sp_ret_pfs[k].staypoint_id = sp_ret_spts[a].id

\* C11 witness: two users, several staypoints, a fix in the second staypoint and a fix in none
C11_Witness ==
    /\ pc = "staypoints"
    /\ Cardinality(UsersOf(positionfixes)) = 2
    /\ \E k \in 1..Len(sp_ret_pfs) : sp_ret_pfs[k].staypoint_id = 1
    /\ \E k \in 1..Len(sp_ret_pfs) : sp_ret_pfs[k].staypoint_id = NaN

\* the rows of ret_tpls that are triplegs of user u
TriplegsFor(u) == {k \in 1..Len(ret_tpls) : ret_tpls[k].user_id = u}

\* C12 as claimed: in case 3 the tripleg ids start again at 0 with every user
C12_Original ==
    (Returned /\ ~tpl_staypoints.given) =>
        \A u \in UsersOf(tpl_pfs) : TriplegsFor(u) # {} => ret_tpls[Min(TriplegsFor(u))].id = 0

\* C12 amended: in case 3 the tripleg ids count on from one user to the next: the ids of
\* the returned triplegs are 0..n-1 in the order of the rows, the triplegs of a user are
\* consecutive rows, and the users come in the order of their first fix in the table
C12_GlobalIds ==
    (Returned /\ ~tpl_staypoints.given) =>
        /\ \A k \in 1..Len(ret_tpls) : ret_tpls[k].id = k - 1
        /\ \A a, b \in 1..Len(ret_tpls) :
               a < b /\ ret_tpls[a].user_id # ret_tpls[b].user_id =>
                   /\ \A c \in b..Len(ret_tpls) : ret_tpls[c].user_id # ret_tpls[a].user_id
                   /\ Min(FixesOf(tpl_pfs, ret_tpls[a].user_id)) < Min(FixesOf(tpl_pfs, ret_tpls[b].user_id))

\* C12 witness: case 3 has returned triplegs of two users, and the first tripleg of the
\* second user has an id other than 0
C12_Witness ==
    /\ Returned
    /\ ~tpl_staypoints.given
    /\ \E u, v \in UsersOf(tpl_pfs) :
           /\ u # v
           /\ TriplegsFor(u) # {}
           /\ TriplegsFor(v) # {}
           /\ ret_tpls[Min(TriplegsFor(v))].id > 0

---------------------------------------------------------------------------
(* Properties of the triplegs between staypoints *)

\* generate_triplegs has returned from case 1, case 2
ReturnedCase1 == Returned /\ tpl_staypoints.given /\ HasStaypointId(tpl_pfs)
ReturnedCase2 == Returned /\ tpl_staypoints.given /\ ~HasStaypointId(tpl_pfs)

\* the fixes of user u that refer to the staypoint with id s, as positions of the user's
\* sorted fixes
Referring(u, s) ==
    LET pfs == SortedUser(tpl_pfs, u)
    IN {p \in 0..Len(pfs) - 1 : tpl_pfs[At(pfs, p)].staypoint_id = s}

\* the k-th tripleg of user u in ret_tpls
TriplegOf(u, k) == ret_tpls[Min(TriplegsFor(u)) + k - 1]

\* the ids of the fixes of user u at the sorted positions from to .. to, in that order
RunOf(u, from, to) == [m \in 1..(to - from + 1) |-> tpl_pfs[At(SortedUser(tpl_pfs, u), from + m - 1)].id]

\* C13: in case 1 every pair of consecutive staypoints of a user, sorted by started_at,
\* has its tripleg, and that tripleg is the run of the user's sorted fixes from the last
\* fix referring to the first staypoint to the first fix referring to the second, both
\* included; the only fix of a staypoint ends the tripleg into it
C13_ClosedRange ==
    ReturnedCase1 =>
        \A u \in UsersOf(tpl_pfs) :
            LET stps == StaypointsOf(tpl_staypoints.rows, u)
            IN /\ Cardinality(TriplegsFor(u)) = IF stps = <<>> THEN 0 ELSE Len(stps) - 1
               /\ \A k \in 1..(Len(stps) - 1) :
                      /\ TriplegOf(u, k).user_id = u
                      /\ TriplegOf(u, k).coords =
                             RunOf(u, Max(Referring(u, stps[k].id)), Min(Referring(u, stps[k + 1].id)))

\* C13 witness: a user has three staypoints, the one in the middle has a single fix, and
\* that fix is the last constituent of the first tripleg and the first of the second
C13_Witness ==
    /\ ReturnedCase1
    /\ \E u \in UsersOf(tpl_pfs) :
           LET stps == StaypointsOf(tpl_staypoints.rows, u)
           IN /\ Len(stps) = 3
              /\ Cardinality(Referring(u, stps[2].id)) = 1
              /\ Cardinality(TriplegsFor(u)) = 2
              /\ \E f \in FixIds :
                     /\ Row(tpl_pfs, f).staypoint_id = stps[2].id
                     /\ TriplegOf(u, 1).coords[Len(TriplegOf(u, 1).coords)] = f
                     /\ TriplegOf(u, 2).coords[1] = f

---------------------------------------------------------------------------
(* Properties of case 3 *)

\* the positions p of user u's sorted fixes at which case 3 moves from a fix in no
\* staypoint to a fix in a staypoint
Arrivals(u) ==
    LET pfs == SortedUser(tpl_pfs, u)
    IN {p \in 1..Len(pfs) - 1 : /\ tpl_pfs[At(pfs, p - 1)].staypoint_id = NoStaypoint
                                /\ tpl_pfs[At(pfs, p)].staypoint_id \notin {NoStaypoint, NaN}}

\* C14 as claimed: in case 3, whenever the scan moves from a fix in no staypoint to a fix in
\* a staypoint, the tripleg that is closed there is in the returned triplegs: a tripleg of
\* the user has the two fixes as constituents, the second right behind the first
C14_Original ==
    (Returned /\ ~tpl_staypoints.given) =>
        \A u \in UsersOf(tpl_pfs) : \A p \in Arrivals(u) :
            \E k \in TriplegsFor(u) : \E m \in 1..(Len(ret_tpls[k].coords) - 1) :
                /\ ret_tpls[k].coords[m] = tpl_pfs[At(SortedUser(tpl_pfs, u), p - 1)].id
                /\ ret_tpls[k].coords[m + 1] = tpl_pfs[At(SortedUser(tpl_pfs, u), p)].id

---------------------------------------------------------------------------
(* Properties of the scan *)

\* the iteration closes the window of its anchor at the last fix and appends its staypoint
ClosesAtLast ==
    /\ Beyond(scan.i) # {}
    /\ Min(Beyond(scan.i)) = ScanNum - 1
    /\ ScanFix(ScanNum - 1).tracked_at - ScanFix(scan.i).tracked_at > time_threshold

C15_Iteration ==
    (pc = "scan" /\ ~scan.done /\ scan.i < ScanNum /\ scan.j # ScanNum) =>
        /\ Len(Appended) <= 2
        /\ Len(Appended) = 2 <=> ClosesAtLast
        /\ Len(Appended) = 2 =>
               Appended[2] = [user_id |-> ScanFix(ScanNum - 1).user_id,
                              started_at |-> ScanFix(ScanNum - 1).tracked_at,
                              finished_at |-> ScanFix(ScanNum - 1).tracked_at,
                              pfs_id |-> <<ScanFix(ScanNum - 1).id>>]

\* C15: an iteration of the sliding scan appends a second staypoint exactly when it has
\* appended the staypoint of its window [i, j) and j is the index of the last fix; the
\* second staypoint has the last fix as its only member and starts and ends at its
\* tracked_at; an iteration that appends no staypoint for its window appends none at all
C15_TrailingStaypoint == [][C15_Iteration]_vars

\* C15 witness: the scan has ended with the staypoint of the last fix alone behind the
\* staypoint of a window of two fixes
C15_Witness ==
    /\ pc = "scan"
    /\ scan.done
    /\ Len(scan.ret_spts) = 2
    /\ Len(scan.ret_spts[1].pfs_id) = 2
    /\ scan.ret_spts[2].pfs_id = <<ScanFix(ScanNum - 1).id>>
    /\ scan.ret_spts[2].started_at = scan.ret_spts[2].finished_at

\* the fixes of user u from the end of staypoint s1 to the start of staypoint s2, both
\* bounds included, as rows of tpl_pfs
Qualifying(u, s1, s2) ==
    {k \in FixesOf(tpl_pfs, u) : s1.finished_at <= tpl_pfs[k].tracked_at /\ tpl_pfs[k].tracked_at <= s2.started_at}

\* the pairs of consecutive staypoints of user u, sorted by started_at, that two or more
\* fixes qualify for; pair k is staypoint k and staypoint k + 1
EmittingPairs(u) ==
    LET stps == StaypointsOf(tpl_staypoints.rows, u)
    IN {k \in 1..(Len(stps) - 1) : Cardinality(Qualifying(u, stps[k], stps[k + 1])) >= 2}

\* C16: in case 2 the triplegs of a user are those of the pairs of consecutive staypoints,
\* sorted by started_at, that two or more fixes of the user qualify for, in the order of the
\* pairs; the constituents of the tripleg of a pair are the user's fixes with
\* first.finished_at <= tracked_at <= second.started_at, in the order of tracked_at
C16_ClosedInterval ==
    ReturnedCase2 =>
        \A u \in UsersOf(tpl_pfs) :
            LET stps == StaypointsOf(tpl_staypoints.rows, u)
            IN /\ Cardinality(TriplegsFor(u)) = Cardinality(EmittingPairs(u))
               /\ \A k \in EmittingPairs(u) :
                      LET t == TriplegOf(u, Cardinality({e \in EmittingPairs(u) : e <= k}))
                          Q == Qualifying(u, stps[k], stps[k + 1])
                      IN /\ {t.coords[m] : m \in 1..Len(t.coords)} = {tpl_pfs[q].id : q \in Q}
                         /\ Len(t.coords) = Cardinality(Q)
                         /\ \A m \in 1..(Len(t.coords) - 1) :
                                Row(tpl_pfs, t.coords[m]).tracked_at <= Row(tpl_pfs, t.coords[m + 1]).tracked_at

\* C16 witness: a user has three staypoints; the first pair has its tripleg, which starts
\* with a fix tracked at the end of the first staypoint and ends with a fix tracked at the
\* start of the second; a single fix qualifies for the second pair, which has no tripleg
C16_Witness ==
    /\ ReturnedCase2
    /\ \E u \in UsersOf(tpl_pfs) :
           LET stps == StaypointsOf(tpl_staypoints.rows, u)
           IN /\ Len(stps) = 3
              /\ EmittingPairs(u) = {1}
              /\ Cardinality(Qualifying(u, stps[2], stps[3])) = 1
              /\ Cardinality(TriplegsFor(u)) = 1
              /\ TriplegOf(u, 1).started_at = stps[1].finished_at
              /\ TriplegOf(u, 1).finished_at = stps[2].started_at

---------------------------------------------------------------------------
(* Properties of the staypoints *)

\* how far apart the fixes with ids f and g of positionfixes are
Apart(f, g) ==
    LET x == Row(positionfixes, f).geom
        y == Row(positionfixes, g).geom
    IN IF x >= y THEN x - y ELSE y - x

\* every member of every staypoint of run r is within the run's dist_threshold of the
\* first member, and no staypoint ends before it starts
WithinThreshold(r) ==
    \A a \in 1..Len(r.ret.stps2pfs_map) :
        /\ \A m \in 1..Len(r.ret.stps2pfs_map[a]) :
               Apart(r.ret.stps2pfs_map[a][1], r.ret.stps2pfs_map[a][m]) <= r.dist_threshold
        /\ r.ret.ret_spts[a].started_at <= r.ret.ret_spts[a].finished_at

\* C17: every member fix of every staypoint returned by generate_staypoints is within
\* dist_threshold of the staypoint's first member fix, and started_at <= finished_at
C17_WithinThreshold == pc = "returned" => WithinThreshold(runs[1]) /\ WithinThreshold(runs[2])

\* C17 witness: a staypoint has a member at exactly dist_threshold from its first member,
\* with dist_threshold above 0, and ends later than it starts
C17_Witness ==
    /\ pc = "returned"
    /\ runs[1].dist_threshold > 0
    /\ \E a \in 1..Len(runs[1].ret.stps2pfs_map) :
           /\ \E m \in 1..Len(runs[1].ret.stps2pfs_map[a]) :
                  Apart(runs[1].ret.stps2pfs_map[a][1], runs[1].ret.stps2pfs_map[a][m]) = runs[1].dist_threshold
           /\ runs[1].ret.ret_spts[a].started_at < runs[1].ret.ret_spts[a].finished_at

\* C18 as claimed: every iteration of the outer while strictly advances the anchor i or
\* ends the scan
C18_Original ==
    [][(pc = "scan" /\ ~scan.done /\ scan.i < ScanNum) => (scan'.i > scan.i \/ scan'.done)]_vars

\* an iteration of the outer while advances the anchor to a later fix, or ends the scan, or
\* runs the inner while off the end of the fixes, leaving the anchor and j = num_pfs
C18_Iteration ==
    (pc = "scan" /\ ~scan.done) =>
        IF ~(scan.i < ScanNum) \/ scan.j = ScanNum THEN scan'.done
        ELSE \/ scan.i < scan'.i /\ scan'.i < ScanNum /\ scan'.j = scan'.i /\ ~scan'.done
             \/ scan'.i = scan.i /\ scan'.j = ScanNum /\ ~scan'.done

\* C18 amended: the sliding scan ends for every finite sequence of fixes of a user, the
\* empty one included: every iteration of the outer while either strictly advances the
\* anchor i, or ends the scan, or runs off the end of the fixes without advancing i, and
\* then the next iteration ends the scan at j = num_pfs
C18_Terminates == [][C18_Iteration]_vars /\ <>(scan.done)

\* C18 witness: the scan has ended behind an iteration that ran off the end of the fixes,
\* the anchor having advanced before
C18_Witness ==
    /\ pc = "scan"
    /\ scan.done
    /\ 0 < scan.i
    /\ scan.i < ScanNum - 1
    /\ scan.j = ScanNum

---------------------------------------------------------------------------
(* Properties across users *)

\* the rows of user u of a table
Alone(tbl, u) == SelectSeq(tbl, LAMBDA row : row.user_id = u)

\* a staypoint with its members and a tripleg, their ids aside
StaypointBody(spt, members) ==
    [user_id |-> spt.user_id, started_at |-> spt.started_at, finished_at |-> spt.finished_at, pfs_id |-> members]
TriplegBody(tpl) ==
    [user_id |-> tpl.user_id, started_at |-> tpl.started_at, finished_at |-> tpl.finished_at, coords |-> tpl.coords]

\* what generate_staypoints result r holds for user u: the staypoints in the order of the rows
StaypointsProduced(r, u) ==
    LET rows == SelectSeq([k \in 1..Len(r.ret_spts) |-> k], LAMBDA k : r.ret_spts[k].user_id = u)
    IN [k \in 1..Len(rows) |-> StaypointBody(r.ret_spts[rows[k]], r.stps2pfs_map[rows[k]])]

\* the triplegs of user u in the table tpls, in the order of the rows
TriplegsProduced(tpls, u) ==
    LET rows == SelectSeq([k \in 1..Len(tpls) |-> k], LAMBDA k : tpls[k].user_id = u)
    IN [k \in 1..Len(rows) |-> TriplegBody(tpls[rows[k]])]

\* generate_staypoints and generate_triplegs on the rows of user u alone, with the
\* arguments of the calls made
StaypointsAlone(u) == generate_staypoints_sliding(Alone(positionfixes, u), dist_threshold, time_threshold)
TriplegsAlone(u) ==
    generate_triplegs(Alone(tpl_pfs, u), [given |-> tpl_staypoints.given, rows |-> Alone(tpl_staypoints.rows, u)])

\* the staypoints of every user are those of the user's fixes alone
StaypointsIndependent ==
    pc = "staypoints" =>
        \A u \in UsersOf(positionfixes) :
            StaypointsProduced([ret_spts |-> sp_ret_spts, stps2pfs_map |-> stps2pfs_map], u)
                = StaypointsProduced(StaypointsAlone(u), u)

C19_Raises ==
    /\ Returned
    /\ \E u \in UsersOf(tpl_pfs) : TriplegsFor(u) # {} /\ TriplegsAlone(u).raised = "ValueError"

---------------------------------------------------------------------------
(* Properties of the caller's tables *)

====
